---- MODULE Spec2Model ----
(***************************************************************************)
(* A model of the ALLHiC reconstruction core: the CLM contact store        *)
(* (clm.go ParseClm), the active-set selector (pruneByDensity,             *)
(* pruneBySize, Activate), the tour refiner (pruneTour) and the path       *)
(* extractor (graph.go makeConfidenceGraph, generatePathAndCycle).         *)
(***************************************************************************)
EXTENDS Integers, Sequences, FiniteSets, TLC

VARIABLES
    Tigs,             \* CLMFile.Tigs: sequence of [Size, IsActive], index = Idx + 1
    tigToIdx,         \* CLMFile.tigToIdx: name -> idx
    contacts,         \* CLMFile.contacts: Pair -> Contact
    orientedContacts, \* CLMFile.orientedContacts: OrientedPair -> GArray
    seen,             \* the link records ParseClm has scanned so far (history)
    stage,            \* where the main thread of the run is
    Tour,             \* CLMFile.Tour.Tigs: the Idx of each tour member, in order
    TourM,            \* CLMFile.Tour.M: the contact matrix
    densLb,           \* pruneByDensity: lb, as the fraction 10^lb = densLb[1] / densLb[2]
    phase,            \* pruneTour: phase
    ptTour,           \* pruneTour: tour, the round's copy of r.Tour
    ptI,              \* pruneTour: i of the loop that starts the goroutines
    tasks,            \* pruneTour: the goroutines of the round, by idx
    log10ds,          \* pruneTour: log10ds, position idx + 1
    wg,               \* pruneTour: the counter of the WaitGroup
    G,                \* the linkage graph: <<a, b>> -> weight, a fraction
    CG,               \* the confidence graph makeConfidenceGraph returns
    contigPath,       \* Contig.path: contig -> index of its path in paths, from 0
    paths,            \* the Path objects, in order of creation: their contigs
    visited,          \* generatePathAndCycle: visited
    walk,             \* generatePathAndCycle: a, path1, path2, isCycle and the dfs call
    result,           \* generatePathAndCycle: the paths returned
    cycles,           \* the number of walks found to be a cycle so far
    scaled,           \* makeConfidenceGraph on a copy of G with every weight multiplied
    marked            \* the assignments visited[a] = true so far: <<a, direction, walk>> (history)

storeVars == <<tigToIdx, contacts, orientedContacts, seen>>
tourVars == <<Tour, TourM>>
roundVars == <<phase, ptTour, ptI, tasks, log10ds, wg>>
graphVars == <<G, CG, contigPath, paths, visited, walk, result, cycles, scaled, marked>>
vars == <<Tigs, stage, densLb, storeVars, tourVars, roundVars, graphVars>>

(***************************************************************************)
(* Bounds and input domains                                                *)
(***************************************************************************)
NTigs == 3
MaxRecords == 2
NPaths == 3

\* Contig.path of a contig that is in no path
NilPath == -1

\* Names are numbers; the name NTigs is not in the ids file.
TigNames == 0 .. (NTigs - 1)
UnknownName == NTigs

Orients == {"+", "-"}
LinkCounts == {1, 2}
DistLists == {<<3>>, <<3, 9>>}

(***************************************************************************)
(* Helpers of the repository that the contact store calls                  *)
(***************************************************************************)
GRLB == 2
GRUB == 8
NBins == 4

RECURSIVE Pow2(_)
Pow2(n) == IF n = 0 THEN 1 ELSE 2 * Pow2(n - 1)

\* The bin of a distance on the exponential scale: [2^b, 2^(b+1)), last bin open.
BinOf(d) ==
    CHOOSE b \in 0 .. (NBins - 1) :
        /\ (b = 0 \/ d >= Pow2(b))
        /\ (b = NBins - 1 \/ d < Pow2(b + 1))

GoldenArray(dists) ==
    [b \in 0 .. (NBins - 1) |->
        Cardinality({k \in 1 .. Len(dists) : BinOf(dists[k]) = b})]

Clamp(v, lo, hi) == IF v > hi THEN hi ELSE IF v < lo THEN lo ELSE v

RECURSIVE ProdFrom(_, _, _, _)
\* product of the clamped values of a[k..], leaving out position skip
ProdFrom(a, k, skip, bnd) ==
    IF k > Len(a) THEN 1
    ELSE (IF k = skip THEN 1 ELSE Clamp(a[k], bnd[1], bnd[2]))
         * ProdFrom(a, k + 1, skip, bnd)

RECURSIVE SumOthers(_, _, _)
SumOthers(a, k, bnd) ==
    IF k > Len(a) THEN 0
    ELSE ProdFrom(a, 1, k, bnd) + SumOthers(a, k + 1, bnd)

\* int(n / sum(1/v)) over the bounded values, in exact arithmetic
HmeanInt(a, amin, amax) ==
    (Len(a) * ProdFrom(a, 1, 0, <<amin, amax>>)) \div SumOthers(a, 1, <<amin, amax>>)

MINSIZE == 1000

(***************************************************************************)
(* clm.go: ParseIds, rr, ParseClm                                          *)
(***************************************************************************)
\* ParseIds: every contig of the ids file gets the next index and is active.
ParseIds(sizes) ==
    [k \in 1 .. Len(sizes) |-> [Size |-> sizes[k], IsActive |-> TRUE]]

ParseIdsIndex == [n \in TigNames |-> n]

rrSame(b) == b
rr(b) == IF b = "-" THEN "+" ELSE "-"

MapPut(m, k, v) == [x \in (DOMAIN m) \cup {k} |-> IF x = k THEN v ELSE m[x]]

Strandedness(ao, bo) == IF ao # bo THEN -1 ELSE 1

\* lines 170-178 with the stored link count accumulated over the records
StoreContactSum(cs, pair, c) ==
    IF pair \in DOMAIN cs
    THEN IF cs[pair].meanDist > c.meanDist
         THEN MapPut(cs, pair, [c EXCEPT !.nlinks = cs[pair].nlinks + c.nlinks])
         ELSE MapPut(cs, pair, [cs[pair] EXCEPT !.nlinks = cs[pair].nlinks + c.nlinks])
    ELSE MapPut(cs, pair, c)

\* lines 170-178: the Contact of a pair is replaced only by a strictly smaller meanDist
StoreContact(cs, pair, c) ==
    IF pair \in DOMAIN cs
    THEN IF cs[pair].meanDist > c.meanDist THEN MapPut(cs, pair, c) ELSE cs
    ELSE MapPut(cs, pair, c)

\* lines 179-180
StoreOriented(oc, ai, bi, ao, bo, gdists) ==
    MapPut(MapPut(oc, <<ai, bi, ao, bo>>, gdists),
           <<bi, ai, rr(bo), rr(ao)>>, gdists)

ContactOf(rec) ==
    [strandedness |-> Strandedness(rec.ao, rec.bo),
     nlinks |-> rec.nlinks,
     meanDist |-> HmeanInt(rec.dists, GRLB, GRUB)]

\* The contigs the link records of the run mention.
ClmNames == {0, 1}

KnownRecords ==
    [at : ClmNames, bt : ClmNames, ao : Orients, bo : Orients,
     nlinks : LinkCounts, dists : DistLists]

LinkRecords ==
    {r \in KnownRecords : r.at # r.bt}
    \cup {[at |-> UnknownName, bt |-> 1, ao |-> "+", bo |-> "+", nlinks |-> 1, dists |-> <<3>>],
          [at |-> 0, bt |-> UnknownName, ao |-> "+", bo |-> "-", nlinks |-> 2, dists |-> <<3, 9>>]}

\* the scanner loop without the two tests of lines 146-153: a name that is not
\* in tigToIdx reads as index 0
ParseClmRecordNoSkip(rec) ==
    /\ stage = "parse"
    /\ Len(seen) < MaxRecords
    /\ seen' = Append(seen, rec)
    /\ LET ai == IF rec.at \in DOMAIN tigToIdx THEN tigToIdx[rec.at] ELSE 0
           bi == IF rec.bt \in DOMAIN tigToIdx THEN tigToIdx[rec.bt] ELSE 0
       IN /\ contacts' = StoreContact(contacts, <<ai, bi>>, ContactOf(rec))
          /\ orientedContacts' =
               StoreOriented(orientedContacts, ai, bi, rec.ao, rec.bo,
                             GoldenArray(rec.dists))
    /\ UNCHANGED <<Tigs, tigToIdx, stage, densLb, tourVars, roundVars, graphVars>>

\* One iteration of the scanner loop of ParseClm.
ParseClmRecord(rec) ==
    /\ stage = "parse"
    /\ Len(seen) < MaxRecords
    /\ seen' = Append(seen, rec)
    /\ IF rec.at \notin DOMAIN tigToIdx \/ rec.bt \notin DOMAIN tigToIdx
       THEN UNCHANGED <<contacts, orientedContacts>>
       ELSE LET ai == tigToIdx[rec.at]
                bi == tigToIdx[rec.bt]
            IN /\ contacts' = StoreContact(contacts, <<ai, bi>>, ContactOf(rec))
               /\ orientedContacts' =
                    StoreOriented(orientedContacts, ai, bi, rec.ao, rec.bo,
                                  GoldenArray(rec.dists))
    /\ UNCHANGED <<Tigs, tigToIdx, stage, densLb, tourVars, roundVars, graphVars>>

ParseClm == \E rec \in LinkRecords : ParseClmRecord(rec)

EmptyMap == [x \in {} |-> 0]

NoWalk == [start |-> 0, cur |-> 0, visitSister |-> FALSE,
           path1 |-> <<>>, path2 |-> <<>>, isCycle |-> FALSE]

\* no scaled copy of the graph is part of the run
NoScaled == [done |-> TRUE, factor |-> 1, conf |-> EmptyMap]

NoGraph ==
    /\ marked = {}
    /\ scaled = NoScaled
    /\ G = EmptyMap
    /\ CG = EmptyMap
    /\ contigPath = EmptyMap
    /\ paths = <<>>
    /\ visited = {}
    /\ walk = NoWalk
    /\ result = {}
    /\ cycles = 0

\* The state InitCLMFile leaves before any tour exists.
NoTour ==
    /\ Tour = <<>>
    /\ TourM = <<>>
    /\ densLb = <<0, 1>>
    /\ phase = 0
    /\ ptTour = <<>>
    /\ ptI = 0
    /\ tasks = EmptyMap
    /\ log10ds = <<>>
    /\ wg = 0

InitClm ==
    /\ Tigs = ParseIds([k \in 1 .. NTigs |-> 10 * MINSIZE])
    /\ tigToIdx = ParseIdsIndex
    /\ contacts = EmptyMap
    /\ orientedContacts = EmptyMap
    /\ seen = <<>>
    /\ stage = "parse"
    /\ NoTour
    /\ NoGraph

NextClm == ParseClm

SpecClm == InitClm /\ [][NextClm]_vars

(***************************************************************************)
(* clm.go: calculateDensities, pruneByDensity, pruneBySize, Activate, M    *)
(***************************************************************************)
SizeCap == 500000

Min(a, b) == IF a < b THEN a ELSE b

RECURSIVE SumNlinks(_, _, _)
\* the nlinks a contig collects over the pairs ps of the store: one per end
SumNlinks(cs, ps, i) ==
    IF ps = {} THEN 0
    ELSE LET p == CHOOSE x \in ps : TRUE
         IN (IF p[1] = i THEN cs[p].nlinks ELSE 0)
            + (IF p[2] = i THEN cs[p].nlinks ELSE 0)
            + SumNlinks(cs, ps \ {p}, i)

\* logdensities[i] = log10(d / s), kept as the fraction <<d, s>>
calculateDensities(tigs, cs) ==
    [k \in 1 .. Len(tigs) |->
        <<SumNlinks(cs, DOMAIN cs, k - 1), Min(tigs[k].Size, SizeCap)>>]

\* log10(f[1] / f[2]) < lb, where 10^lb = lb[1] / lb[2]; nothing is below
\* the bound <<0, 1>> (a lower bound of minus infinity, or not a number)
LogBelow(f, lb) == f[1] * lb[2] < lb[1] * f[2]

DensityCutoffs == {<<0, 1>>, <<1, 20000>>, <<1, 2500>>, <<1, 100>>}

\* OutlierCutoff over the densities: some lower bound; a constant vector
\* gets a bound that none of its values is below
OutlierCutoffDensities(ld) ==
    IF \A j \in DOMAIN ld : \A k \in DOMAIN ld : ld[j][1] * ld[k][2] = ld[k][1] * ld[j][2]
    THEN {lb \in DensityCutoffs : \A k \in DOMAIN ld : ~LogBelow(ld[k], lb)}
    ELSE DensityCutoffs

\* line 212 without the guard on the size
DensityInvalidNoGuard(tig, logdensity, lb) == LogBelow(logdensity, lb)

\* line 212
DensityInvalid(tig, logdensity, lb) ==
    LogBelow(logdensity, lb) /\ tig.Size < MINSIZE * 10

pruneByDensity(tigs, cs, lb) ==
    LET logdensities == calculateDensities(tigs, cs)
    IN [k \in 1 .. Len(tigs) |->
           IF DensityInvalid(tigs[k], logdensities[k], lb)
           THEN [tigs[k] EXCEPT !.IsActive = FALSE]
           ELSE tigs[k]]

\* the size pass written as an assignment of the test to the flag
pruneBySizeAssign(tigs) ==
    [k \in 1 .. Len(tigs) |-> [tigs[k] EXCEPT !.IsActive = ~(tigs[k].Size < MINSIZE)]]

\* lines 222-232
pruneBySize(tigs) ==
    [k \in 1 .. Len(tigs) |->
        IF tigs[k].Size < MINSIZE
        THEN [tigs[k] EXCEPT !.IsActive = FALSE]
        ELSE tigs[k]]

RECURSIVE ActiveFrom(_, _)
\* lines 317-321: the Idx of the active contigs from position k on, in file order
ActiveFrom(tigs, k) ==
    IF k > Len(tigs) THEN <<>>
    ELSE (IF tigs[k].IsActive THEN <<k - 1>> ELSE <<>>) \o ActiveFrom(tigs, k + 1)

\* the matrix of M sized by the active contigs instead of len(r.Tigs)
MOfActive(tigs, cs, first) ==
    LET N == Cardinality({k \in 1 .. Len(tigs) : tigs[k].IsActive})
    IN [c \in (0 .. (N - 1)) \X (0 .. (N - 1)) |-> 0]

\* lines 345-355: the matrix the map iteration leaves; a cell written from
\* both Pair{i,j} and Pair{j,i} keeps the one iterated last (first[p] says
\* that Pair{i,j}, i < j, came first)
MOf(tigs, cs, first) ==
    LET N == Len(tigs)
    IN [c \in (0 .. (N - 1)) \X (0 .. (N - 1)) |->
           LET lo == <<Min(c[1], c[2]), c[1] + c[2] - Min(c[1], c[2])>>
               hi == <<lo[2], lo[1]>>
           IN IF lo \in DOMAIN cs /\ hi \in DOMAIN cs
              THEN (IF first[lo] THEN cs[hi].nlinks ELSE cs[lo].nlinks)
              ELSE IF lo \in DOMAIN cs THEN cs[lo].nlinks
              ELSE IF hi \in DOMAIN cs THEN cs[hi].nlinks
              ELSE 0]

MChoices(tigs, cs) ==
    LET both == {p \in DOMAIN cs : p[1] < p[2] /\ <<p[2], p[1]>> \in DOMAIN cs}
    IN {MOf(tigs, cs, first) : first \in [both -> BOOLEAN]}

\* Activate, line 313
ActivateDensity ==
    /\ stage = "start"
    /\ \E lb \in OutlierCutoffDensities(calculateDensities(Tigs, contacts)) :
          /\ Tigs' = pruneByDensity(Tigs, contacts, lb)
          /\ densLb' = lb
    /\ stage' = "density"
    /\ UNCHANGED <<storeVars, tourVars, roundVars, graphVars>>

\* Activate, line 314
ActivateSize ==
    /\ stage = "density"
    /\ Tigs' = pruneBySize(Tigs)
    /\ stage' = "sized"
    /\ UNCHANGED <<densLb, storeVars, tourVars, roundVars, graphVars>>

\* Activate, lines 317-323
ActivateTour ==
    /\ stage = "sized"
    /\ Tour' = Tour \o ActiveFrom(Tigs, 1)
    /\ \E m \in MChoices(Tigs, contacts) : TourM' = m
    /\ stage' = "idle"
    /\ UNCHANGED <<Tigs, densLb, storeVars, roundVars, graphVars>>

\* a further call of pruneByDensity, between two refinements
CallPruneByDensity ==
    /\ stage = "idle"
    /\ \E lb \in OutlierCutoffDensities(calculateDensities(Tigs, contacts)) :
          /\ Tigs' = pruneByDensity(Tigs, contacts, lb)
          /\ densLb' = lb
    /\ UNCHANGED <<stage, storeVars, tourVars, roundVars, graphVars>>

\* a further call of pruneBySize
CallPruneBySize ==
    /\ stage = "idle"
    /\ Tigs' = pruneBySize(Tigs)
    /\ UNCHANGED <<stage, densLb, storeVars, tourVars, roundVars, graphVars>>

(***************************************************************************)
(* clm.go: pruneTour                                                       *)
(***************************************************************************)
\* deltaScore = tourScore - newTourScore: not positive, a power of ten, or not
\* a number when Evaluate returned a value that is not finite
DeltaScores ==
    {<<"nonpositive", 0>>, <<"nan", 0>>, <<"pow10", -9>>, <<"pow10", -5>>, <<"pow10", 2>>}

\* the deltaScore of a goroutine that has not computed it yet
NoDelta == <<"unset", 0>>

\* the absolute value of the logarithm in place of the logarithm
Log10DeltaAbs(d) ==
    IF d[1] = "pow10" /\ d[2] > -9 THEN (IF d[2] < 0 THEN 0 - d[2] ELSE d[2]) ELSE -9

\* lines 259-263: log10(deltaScore) if deltaScore > 1e-9, else -9.0
Log10Delta(d) == IF d[1] = "pow10" /\ d[2] > -9 THEN d[2] ELSE -9

TourCutoffs == {-10, -7, 1}

\* OutlierCutoff over log10ds: some lower bound; a constant vector gets a
\* bound that none of its values is below
OutlierCutoffTour(ds) ==
    IF \A j \in DOMAIN ds : \A k \in DOMAIN ds : ds[j] = ds[k]
    THEN {lb \in TourCutoffs : \A k \in DOMAIN ds : ~(ds[k] < lb)}
    ELSE TourCutoffs

\* the element at i replaced by the last one, the order given up
DeleteAtSwap(t, i) == [k \in 1 .. (Len(t) - 1) |-> IF k = i + 1 THEN t[Len(t)] ELSE t[k]]

\* lines 248-250: a copy of the tour with the element at i deleted (i from 0)
DeleteAt(t, i) == [k \in 1 .. (Len(t) - 1) |-> IF k <= i THEN t[k] ELSE t[k + 1]]

\* line 235: pruneTour is called
PruneTourCall ==
    /\ stage = "idle"
    /\ phase' = 1
    /\ stage' = "phase"
    /\ UNCHANGED <<Tigs, densLb, storeVars, tourVars, ptTour, ptI, tasks, log10ds, wg, graphVars>>

\* the head of a phase loop that has no bound on phase
PhaseStartNoBound ==
    /\ stage = "phase"
    /\ ptTour' = Tour
    /\ log10ds' = [k \in 1 .. Len(Tour) |-> 0]
    /\ ptI' = 0
    /\ tasks' = EmptyMap
    /\ stage' = "spawn"
    /\ UNCHANGED phase
    /\ UNCHANGED <<Tigs, densLb, storeVars, tourVars, wg, graphVars>>

\* lines 241-245: the head of the phase loop
PhaseStart ==
    /\ stage = "phase"
    /\ IF phase < 3
       THEN /\ ptTour' = Tour
            /\ log10ds' = [k \in 1 .. Len(Tour) |-> 0]
            /\ ptI' = 0
            /\ tasks' = EmptyMap
            /\ stage' = "spawn"
            /\ UNCHANGED phase
       ELSE /\ stage' = "idle"
            /\ UNCHANGED <<phase, ptTour, log10ds, ptI, tasks>>
    /\ UNCHANGED <<Tigs, densLb, storeVars, tourVars, wg, graphVars>>

\* lines 247-265: one iteration of the loop that starts the goroutines
SpawnLoop ==
    /\ stage = "spawn"
    /\ IF ptI < Len(ptTour)
       THEN /\ wg' = wg + 1
            /\ tasks' = MapPut(tasks, ptI, [st |-> "running", deltaScore |-> NoDelta,
                                             newTour |-> DeleteAt(ptTour, ptI)])
            /\ ptI' = ptI + 1
            /\ UNCHANGED stage
       ELSE /\ stage' = "wait"
            /\ UNCHANGED <<wg, tasks, ptI>>
    /\ UNCHANGED <<Tigs, densLb, storeVars, tourVars, phase, ptTour, log10ds, graphVars>>

\* lines 255-263: goroutine idx evaluates its tour and writes its slot
TaskEvaluate(idx) ==
    /\ idx \in DOMAIN tasks
    /\ tasks[idx].st = "running"
    /\ \E d \in DeltaScores :
          /\ log10ds' = [log10ds EXCEPT ![idx + 1] = Log10Delta(d)]
          /\ tasks' = [tasks EXCEPT ![idx].st = "written", ![idx].deltaScore = d]
    /\ UNCHANGED <<Tigs, stage, densLb, storeVars, tourVars, phase, ptTour, ptI, wg, graphVars>>

\* line 254: the deferred wg.Done()
TaskDone(idx) ==
    /\ idx \in DOMAIN tasks
    /\ tasks[idx].st = "written"
    /\ wg' = wg - 1
    /\ tasks' = [tasks EXCEPT ![idx].st = "done"]
    /\ UNCHANGED <<Tigs, stage, densLb, storeVars, tourVars, phase, ptTour, ptI, log10ds, graphVars>>

\* a Wait that returns at once
WaitReadyNow == TRUE

\* line 267: wg.Wait() returns when the counter is zero
WaitReady == wg = 0

WaitGroupWait ==
    /\ stage = "wait"
    /\ WaitReady
    /\ stage' = "cutoff"
    /\ UNCHANGED <<Tigs, densLb, storeVars, tourVars, roundVars, graphVars>>

\* lines 275-280
TourPruned(tigs, tour, ds, lb) ==
    [k \in 1 .. Len(tigs) |->
        IF \E j \in 1 .. Len(tour) : tour[j] = k - 1 /\ ds[j] < lb
        THEN [tigs[k] EXCEPT !.IsActive = FALSE]
        ELSE tigs[k]]

\* the rebuild that keeps every member of the tour
SelectAll(tigs, tour) == tour

\* lines 289-294
SelectActive(tigs, tour) == SelectSeq(tour, LAMBDA idx : tigs[idx + 1].IsActive)

\* lines 268-297: the bounds, the deactivation and the end of the phase
RoundFinish ==
    /\ stage = "cutoff"
    /\ \E lb \in OutlierCutoffTour(log10ds) :
          LET invalid == Cardinality({j \in 1 .. Len(ptTour) : log10ds[j] < lb})
              tigs == TourPruned(Tigs, ptTour, log10ds, lb)
          IN /\ Tigs' = tigs
             /\ IF invalid = 0
                THEN /\ stage' = "idle"
                     /\ UNCHANGED <<Tour, phase>>
                ELSE /\ Tour' = SelectActive(tigs, ptTour)
                     /\ phase' = phase + 1
                     /\ stage' = "phase"
    /\ UNCHANGED <<densLb, storeVars, TourM, ptTour, ptI, tasks, log10ds, wg, graphVars>>

pruneTour ==
    \/ PruneTourCall
    \/ PhaseStart
    \/ SpawnLoop
    \/ \E idx \in 0 .. (NTigs - 1) : TaskEvaluate(idx)
    \/ \E idx \in 0 .. (NTigs - 1) : TaskDone(idx)
    \/ WaitGroupWait
    \/ RoundFinish

Activate == ActivateDensity \/ ActivateSize \/ ActivateTour

(***************************************************************************)
(* The runs                                                                *)
(***************************************************************************)
\* the contacts ParseClm leaves for link records between neighbours in the
\* ids file, one Contact each
ChainContacts(counts) ==
    LET ps == {<<i, i + 1>> : i \in {j \in 0 .. (NTigs - 2) : counts[j] > 0}}
    IN [p \in ps |-> [strandedness |-> 1, nlinks |-> counts[p[1]], meanDist |-> 3]]

InitStore(sizes, cs) ==
    /\ Tigs = ParseIds(sizes)
    /\ tigToIdx = ParseIdsIndex
    /\ contacts = cs
    /\ orientedContacts = EmptyMap
    /\ seen = <<>>
    /\ stage = "start"
    /\ NoTour
    /\ NoGraph

SelectSizes == {500, 1000, 5000, 10000, 600000}

\* Activate on a parsed CLM file
InitSelect ==
    \E sizes \in [1 .. NTigs -> SelectSizes] :
        \E counts \in [0 .. (NTigs - 2) -> {0, 1, 3}] :
            InitStore(sizes, ChainContacts(counts))

NextSelect == Activate

SpecSelect == InitSelect /\ [][NextSelect]_vars

PruneSizes == {500, 20000}

\* Activate, then the three pruning operations in any order
InitPrune ==
    \E sizes \in [1 .. NTigs -> PruneSizes] :
        InitStore(sizes, ChainContacts([j \in 0 .. (NTigs - 2) |-> IF j = 0 THEN 2 ELSE 0]))

NextPrune == Activate \/ CallPruneByDensity \/ CallPruneBySize \/ pruneTour

SpecPrune == InitPrune /\ [][NextPrune]_vars

(***************************************************************************)
(* graph.go: the linkage graph over the two nodes of every path            *)
(***************************************************************************)
\* Path k of the call has the nodes 2k (LNode) and 2k + 1 (RNode).
NodesOf(np) == 0 .. (2 * np - 1)
Sister(a) == IF a % 2 = 0 THEN a + 1 ELSE a - 1
PathOfNode(a) == a \div 2

\* Edge.isReverse, lines 33-35
isReverse(edge) == edge.a % 2 = 1

\* Edge.isSister, lines 38-40; a weight is the fraction weight[1] / weight[2]
isSister(edge) == edge.weight[1] = 0

\* the nodes that have an entry in the adjacency map
Keys(g) == {e[1] : e \in DOMAIN g}
Nbrs(g, a) == {e[2] : e \in {x \in DOMAIN g : x[1] = a}}

\* x < y and x > 1 on fractions; a zero denominator is +Inf
FracLess(x, y) ==
    IF x[2] = 0 THEN FALSE
    ELSE IF y[2] = 0 THEN TRUE
    ELSE x[1] * y[2] < y[1] * x[2]
FracAboveOne(x) == IF x[2] = 0 THEN x[1] > 0 ELSE x[1] > x[2]

RECURSIVE TwoLargestFrom(_, _, _, _)
\* lines 94-101: one pass over the scores of the neighbours of a
TwoLargestFrom(g, a, nbs, fs) ==
    IF nbs = {} THEN fs
    ELSE LET b == CHOOSE x \in nbs : TRUE
             score == g[<<a, b>>][1]
             nfs == IF score > fs[1] THEN <<score, fs[1]>>
                    ELSE IF score <= fs[1] /\ score > fs[2] THEN <<fs[1], score>>
                    ELSE fs
         IN TwoLargestFrom(g, a, nbs \ {b}, nfs)

\* lines 93-103
TwoLargest(g) == [a \in Keys(g) |-> TwoLargestFrom(g, a, Nbrs(g, a), <<0, 0>>)]

\* sort.Float64s on four values
Sort4(v) ==
    CHOOSE s \in [1 .. 4 -> {v[k] : k \in 1 .. 4}] :
        /\ \A k \in 1 .. 3 : s[k] <= s[k + 1]
        /\ \A x \in {v[k] : k \in 1 .. 4} :
              Cardinality({k \in 1 .. 4 : s[k] = x}) = Cardinality({k \in 1 .. 4 : v[k] = x})

\* getSecondLargest with the duplicate skipped only above an absolute weight
getSecondLargestAbs(a, b) ==
    LET A == Sort4(a \o b)
    IN IF A[4] = A[3] /\ A[2] > 1 THEN A[2] ELSE A[3]

\* getSecondLargest that skips the duplicate whatever comes next
getSecondLargestNoGuard(a, b) ==
    LET A == Sort4(a \o b)
    IN IF A[4] = A[3] THEN A[2] ELSE A[3]

\* the second largest score at the first End alone
getSecondLargestOwn(a, b) == IF a[2] > 0 THEN a[2] ELSE a[1]

\* lines 125-135
getSecondLargest(a, b) ==
    LET A == Sort4(a \o b)
    IN IF A[4] = A[3] /\ A[2] > 0 THEN A[2] ELSE A[3]

\* line 110: G[a][b] /= secondLargest, for every edge
Confidence(g) ==
    LET twoLargest == TwoLargest(g)
    IN [e \in DOMAIN g |->
           <<g[e][1], g[e][2] * getSecondLargest(twoLargest[e[1]], twoLargest[e[2]])>>]

\* lines 90-121: the edges of confidence above 1
makeConfidenceGraph(g) ==
    LET conf == Confidence(g)
        kept == {e \in DOMAIN g : FracAboveOne(conf[e])}
    IN [e \in kept |-> conf[e]]

(***************************************************************************)
(* graph.go: generatePathAndCycle, dfs, breakCycle, reversePath, mergePath *)
(***************************************************************************)
SisterEdge(a) == [a |-> a, b |-> Sister(a), weight |-> <<0, 1>>]

\* the edges in reverse order, each still pointing the way it did
reversePathOrderOnly(path) == [k \in 1 .. Len(path) |-> path[Len(path) + 1 - k]]

\* lines 231-239
reversePath(path) ==
    [k \in 1 .. Len(path) |->
        [a |-> path[Len(path) + 1 - k].b,
         b |-> path[Len(path) + 1 - k].a,
         weight |-> path[Len(path) + 1 - k].weight]]

RECURSIVE MinIFrom(_, _, _, _)
\* lines 244-249: minI (from 0) after the loop; minWeight <<1, 0>> is MaxFloat64
MinIFrom(path, k, minI, minWeight) ==
    IF k > Len(path) THEN minI
    ELSE IF FracAboveOne(path[k].weight) /\ FracLess(path[k].weight, minWeight)
         THEN MinIFrom(path, k + 1, k - 1, path[k].weight)
         ELSE MinIFrom(path, k + 1, minI, minWeight)

RECURSIVE MinIAnyFrom(_, _, _, _)
\* the loop of breakCycle without the test weight > 1
MinIAnyFrom(path, k, minI, minWeight) ==
    IF k > Len(path) THEN minI
    ELSE IF FracLess(path[k].weight, minWeight)
         THEN MinIAnyFrom(path, k + 1, k - 1, path[k].weight)
         ELSE MinIAnyFrom(path, k + 1, minI, minWeight)

MinI(path) == MinIFrom(path, 1, 0, <<1, 0>>)

\* the edge at minI cut out with the sequence left as it is
RotateNot(path, minI) ==
    SubSeq(path, 1, minI) \o SubSeq(path, minI + 2, Len(path))

\* line 250: append(path[minI+1:], path[:minI]...)
Rotate(path, minI) ==
    SubSeq(path, minI + 2, Len(path)) \o SubSeq(path, 1, minI)

breakCycleAny(path) == Rotate(path, MinIAnyFrom(path, 1, 0, <<1, 0>>))

\* lines 243-251
breakCycle(path) == Rotate(path, MinI(path))

\* Path.reverse: the members in reverse order, each with its orientation flipped
ReverseContigs(cs) ==
    [k \in 1 .. Len(cs) |-> <<cs[Len(cs) + 1 - k][1], 0 - cs[Len(cs) + 1 - k][2]>>]

RECURSIVE MergeFrom(_, _, _, _)
\* lines 214-223: <<the paths after the reversals, s.contigs>>
MergeFrom(path, k, ps, acc) ==
    IF k > Len(path) THEN <<ps, acc>>
    ELSE IF ~isSister(path[k]) THEN MergeFrom(path, k + 1, ps, acc)
    ELSE LET ep == PathOfNode(path[k].a)
             nps == IF isReverse(path[k])
                    THEN [ps EXCEPT ![ep + 1] = ReverseContigs(ps[ep + 1])]
                    ELSE ps
         IN MergeFrom(path, k + 1, nps, acc \o nps[ep + 1])

RECURSIVE MergeAllFrom(_, _, _, _)
\* mergePath without the skip of the edges that are not sister edges
MergeAllFrom(path, k, ps, acc) ==
    IF k > Len(path) THEN <<ps, acc>>
    ELSE LET ep == PathOfNode(path[k].a)
             nps == IF isReverse(path[k])
                    THEN [ps EXCEPT ![ep + 1] = ReverseContigs(ps[ep + 1])]
                    ELSE ps
         IN MergeAllFrom(path, k + 1, nps, acc \o nps[ep + 1])

mergePathAll(path, ps) == MergeAllFrom(path, 1, ps, <<>>)

\* lines 212-228
mergePath(path, ps) == MergeFrom(path, 1, ps, <<>>)

\* the new path joins the paths and no contig is pointed to it
MergedNoAssign(path) ==
    /\ paths' = Append(mergePath(path, paths)[1], mergePath(path, paths)[2])
    /\ contigPath' = contigPath

\* lines 201-204: the new path joins the paths, its contigs point to it
Merged(path) ==
    LET m == mergePath(path, paths)
        s == Len(paths)
    IN /\ paths' = Append(m[1], m[2])
       /\ contigPath' = [c \in DOMAIN contigPath |->
                            IF \E k \in 1 .. Len(m[2]) : m[2][k][1] = c
                            THEN s ELSE contigPath[c]]

\* lines 90-121, called on the linkage graph before the paths are generated
MakeConfidenceGraph ==
    /\ stage = "graph"
    /\ CG' = makeConfidenceGraph(G)
    /\ G' = Confidence(G)
    /\ stage' = "loop"
    /\ UNCHANGED <<contigPath, paths, visited, walk, result, cycles, scaled, marked>>
    /\ UNCHANGED <<Tigs, densLb, storeVars, tourVars, roundVars>>

\* lines 186-191: the loop takes an End that is not visited yet
LoopNext ==
    /\ stage = "loop"
    /\ \E a \in Keys(CG) \ visited :
          walk' = [start |-> a, cur |-> a, visitSister |-> TRUE,
                   path1 |-> <<>>, path2 |-> <<>>, isCycle |-> FALSE]
    /\ stage' = "up"
    /\ UNCHANGED <<G, CG, contigPath, paths, visited, result, cycles, scaled, marked>>
    /\ UNCHANGED <<Tigs, densLb, storeVars, tourVars, roundVars>>

\* lines 255-280: one call of dfs; dir is "up" (path1) or "down" (path2)
DfsCall(dir) ==
    /\ stage = dir
    /\ LET a == walk.cur
           path == IF dir = "up" THEN walk.path1 ELSE walk.path2
           Grow(edge, next, vs) ==
               /\ walk' = IF dir = "up"
                          THEN [walk EXCEPT !.path1 = Append(path, edge),
                                            !.cur = next, !.visitSister = vs]
                          ELSE [walk EXCEPT !.path2 = Append(path, edge),
                                            !.cur = next, !.visitSister = vs]
               /\ UNCHANGED stage
           Return(cycle) ==
               /\ walk' = [walk EXCEPT !.isCycle = cycle]
               /\ stage' = IF dir = "up" THEN "upret" ELSE "downret"
       IN IF a \in visited
          THEN Return(TRUE) /\ UNCHANGED <<visited, marked>>
          ELSE /\ visited' = visited \cup {a}
               /\ marked' = marked \cup {<<a, dir, Len(paths)>>}
               /\ IF walk.visitSister
                  THEN Grow(SisterEdge(a), Sister(a), FALSE)
                  ELSE IF a \in Keys(CG)
                       THEN \E b \in Nbrs(CG, a) :
                               Grow([a |-> a, b |-> b, weight |-> CG[<<a, b>>]], b, TRUE)
                       ELSE Return(FALSE)
    /\ UNCHANGED <<G, CG, contigPath, paths, result, cycles, scaled>>
    /\ UNCHANGED <<Tigs, densLb, storeVars, tourVars, roundVars>>

\* the return of the upstream dfs with visited emptied in place of
\* delete(visited, a)
UpReturnClear ==
    /\ stage = "upret"
    /\ IF walk.isCycle
       THEN /\ walk' = [walk EXCEPT !.path1 = breakCycle(walk.path1)]
            /\ Merged(breakCycle(walk.path1))
            /\ cycles' = cycles + 1
            /\ stage' = "loop"
            /\ UNCHANGED visited
       ELSE /\ visited' = {}
            /\ walk' = [walk EXCEPT !.cur = walk.start, !.visitSister = FALSE]
            /\ stage' = "down"
            /\ UNCHANGED <<contigPath, paths, cycles>>
    /\ UNCHANGED <<G, CG, result, scaled, marked>>
    /\ UNCHANGED <<Tigs, densLb, storeVars, tourVars, roundVars>>

\* lines 193-204 after the upstream dfs has returned
UpReturn ==
    /\ stage = "upret"
    /\ IF walk.isCycle
       THEN /\ walk' = [walk EXCEPT !.path1 = breakCycle(walk.path1)]
            /\ Merged(breakCycle(walk.path1))
            /\ cycles' = cycles + 1
            /\ stage' = "loop"
            /\ UNCHANGED visited
       ELSE /\ visited' = visited \ {walk.start}
            /\ walk' = [walk EXCEPT !.cur = walk.start, !.visitSister = FALSE]
            /\ stage' = "down"
            /\ UNCHANGED <<contigPath, paths, cycles>>
    /\ UNCHANGED <<G, CG, result, scaled, marked>>
    /\ UNCHANGED <<Tigs, densLb, storeVars, tourVars, roundVars>>

\* lines 198-204 after the downstream dfs has returned
DownReturn ==
    /\ stage = "downret"
    /\ LET path1 == reversePath(walk.path1) \o walk.path2
       IN /\ walk' = [walk EXCEPT !.path1 = path1]
          /\ Merged(path1)
    /\ stage' = "loop"
    /\ UNCHANGED <<G, CG, visited, result, cycles, scaled, marked>>
    /\ UNCHANGED <<Tigs, densLb, storeVars, tourVars, roundVars>>

\* lines 138-177: the paths the contigs point to
getUniquePaths == {contigPath[c] : c \in {x \in DOMAIN contigPath : contigPath[x] # NilPath}}

\* lines 206-208: no End is left
LoopEnd ==
    /\ stage = "loop"
    /\ Keys(CG) \ visited = {}
    /\ result' = getUniquePaths
    /\ stage' = "done"
    /\ UNCHANGED <<G, CG, contigPath, paths, visited, walk, cycles, scaled, marked>>
    /\ UNCHANGED <<Tigs, densLb, storeVars, tourVars, roundVars>>

generatePathAndCycle ==
    LoopNext \/ DfsCall("up") \/ DfsCall("down") \/ UpReturn \/ DownReturn \/ LoopEnd

\* the linkage graph of makeGraph on NPaths singleton paths in a ring: links
\* RNode(k) - LNode(k+1) and RNode(k) - RNode(k+1) of the given weights, and a
\* weak link LNode(k) - LNode(k+1); each edge is inserted in both directions
RingGraph(fw, rw) ==
    LET nxt(k) == (k + 1) % NPaths
        und == [e \in {<<2 * k + 1, 2 * nxt(k)>> : k \in 0 .. (NPaths - 1)} |->
                   fw[e[1] \div 2]]
        unr == [e \in {<<2 * k + 1, 2 * nxt(k) + 1>> : k \in 0 .. (NPaths - 1)} |->
                   rw[e[1] \div 2]]
        unb == [e \in {<<2 * k, 2 * nxt(k)>> : k \in 0 .. (NPaths - 1)} |-> 1]
        w(e) == (IF e \in DOMAIN und THEN und[e] ELSE 0)
                + (IF e \in DOMAIN unr THEN unr[e] ELSE 0)
                + (IF e \in DOMAIN unb THEN unb[e] ELSE 0)
        both(e) == w(e) + w(<<e[2], e[1]>>)
        es == {e \in NodesOf(NPaths) \X NodesOf(NPaths) : both(e) > 0}
    IN [e \in es |-> <<both(e), 1>>]

LinkWeights == {0, 2, 3}

\* contig k is the one member of path k; contig NPaths has no path
InitGraph ==
    /\ \E fw \in [0 .. (NPaths - 1) -> LinkWeights] :
          \E rw \in [0 .. (NPaths - 1) -> LinkWeights] :
              G = RingGraph(fw, rw)
    /\ CG = EmptyMap
    /\ contigPath = [c \in 0 .. NPaths |-> IF c < NPaths THEN c ELSE NilPath]
    /\ paths = [k \in 1 .. NPaths |-> <<<<k - 1, 1>>>>]
    /\ visited = {}
    /\ walk = NoWalk
    /\ result = {}
    /\ cycles = 0
    /\ scaled = NoScaled
    /\ marked = {}
    /\ stage = "graph"
    /\ Tigs = <<>>
    /\ tigToIdx = EmptyMap
    /\ contacts = EmptyMap
    /\ orientedContacts = EmptyMap
    /\ seen = <<>>
    /\ NoTour

NextGraph == MakeConfidenceGraph \/ generatePathAndCycle

SpecGraph == InitGraph /\ [][NextGraph]_vars

\* generatePathAndCycle is one sequential computation: once called it always
\* takes its next step
SpecGraphLive == SpecGraph /\ WF_vars(generatePathAndCycle)

(***************************************************************************)
(* graph.go: makeConfidenceGraph on sparse linkage graphs, and on a copy   *)
(* of the graph with every weight multiplied by one constant               *)
(***************************************************************************)
MaxLinks == 3
ConfWeights == {1, 2, 3}
Scales == {2, 3}

\* the pairs of Ends makeGraph can link: two Ends of different paths
EndPairs ==
    {e \in NodesOf(NPaths) \X NodesOf(NPaths) : e[1] \div 2 < e[2] \div 2}

RECURSIVE SetsUpTo(_, _)
\* the subsets of P of at most k elements
SetsUpTo(P, k) ==
    IF k = 0 THEN {{}}
    ELSE LET prev == SetsUpTo(P, k - 1)
         IN prev \cup {s \cup {p} : s \in prev, p \in P}

\* lines 60-73: every link is inserted from a to b and from b to a
LinkGraph(ws) ==
    [e \in (DOMAIN ws) \cup {<<x[2], x[1]>> : x \in DOMAIN ws} |->
        IF e \in DOMAIN ws THEN <<ws[e], 1>> ELSE <<ws[<<e[2], e[1]>>], 1>>]

\* every raw weight multiplied by c
Scale(g, c) == [e \in DOMAIN g |-> <<c * g[e][1], g[e][2]>>]

InitConf ==
    /\ \E S \in SetsUpTo(EndPairs, MaxLinks) :
          \E ws \in [S -> ConfWeights] : G = LinkGraph(ws)
    /\ CG = EmptyMap
    /\ contigPath = [c \in 0 .. NPaths |-> IF c < NPaths THEN c ELSE NilPath]
    /\ paths = [k \in 1 .. NPaths |-> <<<<k - 1, 1>>>>]
    /\ visited = {}
    /\ walk = NoWalk
    /\ result = {}
    /\ cycles = 0
    /\ scaled = [done |-> FALSE, factor |-> 1, conf |-> EmptyMap]
    /\ marked = {}
    /\ stage = "graph"
    /\ Tigs = <<>>
    /\ tigToIdx = EmptyMap
    /\ contacts = EmptyMap
    /\ orientedContacts = EmptyMap
    /\ seen = <<>>
    /\ NoTour

\* lines 90-121 on the copy of the linkage graph with the weights times c
MakeConfidenceGraphScaled ==
    /\ stage = "graph"
    /\ ~scaled.done
    /\ \E c \in Scales :
          scaled' = [done |-> TRUE, factor |-> c,
                     conf |-> makeConfidenceGraph(Scale(G, c))]
    /\ UNCHANGED <<G, CG, contigPath, paths, visited, walk, result, cycles, marked>>
    /\ UNCHANGED <<Tigs, stage, densLb, storeVars, tourVars, roundVars>>

NextConf == MakeConfidenceGraphScaled \/ MakeConfidenceGraph

SpecConf == InitConf /\ [][NextConf]_vars

(***************************************************************************)
(* Properties                                                              *)
(***************************************************************************)
\* C1: a contig whose active flag is false stays inactive through every
\* step of pruneByDensity, pruneBySize and pruneTour, in any order.
C1_NeverReactivated ==
    [][\A k \in 1 .. Len(Tigs) : ~Tigs[k].IsActive => ~Tigs'[k].IsActive]_vars

\* the second round of pruneTour has run its goroutines while a contig that
\* passes the size test is inactive
C1_Witness ==
    /\ stage = "cutoff"
    /\ phase = 2
    /\ \E k \in 1 .. Len(Tigs) : ~Tigs[k].IsActive /\ Tigs[k].Size >= MINSIZE

\* C3: the bounds and the deactivation loop of a round start only when every
\* one of the round's goroutines has written its slot of log10ds.
C3_ResultsCompleteAtCutoff ==
    stage = "cutoff" =>
        \A idx \in 0 .. (Len(ptTour) - 1) :
            idx \in DOMAIN tasks /\ tasks[idx].st \in {"written", "done"}

\* the barrier has been passed in a round of at least two goroutines
C3_Witness == stage = "cutoff" /\ Len(ptTour) >= 2 /\ wg = 0

\* C10: after pruneByDensity and pruneBySize on contigs that were all active,
\* a contig is inactive exactly when (its density is below lb and its size
\* below 10 * MINSIZE) or its size is below MINSIZE.
C10_SelectorOutcome ==
    stage \in {"sized", "idle"} =>
        LET ld == calculateDensities(Tigs, contacts)
        IN \A k \in 1 .. Len(Tigs) :
               ~Tigs[k].IsActive <=>
                   \/ (LogBelow(ld[k], densLb) /\ Tigs[k].Size < 10 * MINSIZE)
                   \/ Tigs[k].Size < MINSIZE

\* one contig went on density, one large contig of low density stayed, one
\* small contig of sufficient density went on size
C10_Witness ==
    /\ stage = "sized"
    /\ LET ld == calculateDensities(Tigs, contacts)
       IN /\ \E k \in 1 .. Len(Tigs) :
                 /\ ~Tigs[k].IsActive /\ Tigs[k].Size >= MINSIZE
                 /\ LogBelow(ld[k], densLb)
          /\ \E k \in 1 .. Len(Tigs) :
                 /\ Tigs[k].IsActive /\ Tigs[k].Size >= 10 * MINSIZE
                 /\ LogBelow(ld[k], densLb)
          /\ \E k \in 1 .. Len(Tigs) :
                 /\ ~Tigs[k].IsActive /\ Tigs[k].Size < MINSIZE
                 /\ ~LogBelow(ld[k], densLb)

\* the number of places contig c has in the returned paths
Places(c) ==
    Cardinality({pk \in UNION {{<<p, k>> : k \in 1 .. Len(paths[p + 1])} : p \in result} :
                    paths[pk[1] + 1][pk[2]][1] = c})

\* C2: when no walk of the call was a cycle, every contig that had a path
\* before the call has exactly one place in the returned paths, and a contig
\* that had none has no place.
C2_PathsPartitionContigs ==
    (stage = "done" /\ cycles = 0) =>
        \A c \in DOMAIN contigPath :
            Places(c) = IF c < NPaths THEN 1 ELSE 0

\* a call without a cycle that merged all the paths into one
C2_Witness ==
    /\ stage = "done"
    /\ cycles = 0
    /\ \E p \in result : Len(paths[p + 1]) = NPaths

\* C4: the step that breaks a cycle removes exactly one edge of the walk,
\* an edge of weight above 1 that is not a sister edge, and keeps the others
\* in their cyclic order.
C4_BreakRemovesConfidentEdge ==
    [][(stage = "upret" /\ walk.isCycle) =>
          \E i \in 1 .. Len(walk.path1) :
              /\ FracAboveOne(walk.path1[i].weight)
              /\ ~isSister(walk.path1[i])
              /\ walk'.path1 = SubSeq(walk.path1, i + 1, Len(walk.path1))
                                   \o SubSeq(walk.path1, 1, i - 1)]_vars

\* a cycle through every path has been broken
C4_Witness ==
    /\ stage = "loop"
    /\ cycles = 1
    /\ walk.isCycle
    /\ Len(walk.path1) = 2 * NPaths - 1

\* the confidence graph is the cycle X -> Y -> Z -> X over the contigs 0, 1, 2
\* and its edge Z -> X is below the two others
CycleXYZ ==
    /\ NPaths = 3
    /\ {<<1, 2>>, <<3, 4>>, <<5, 0>>} \subseteq DOMAIN CG
    /\ FracLess(CG[<<5, 0>>], CG[<<1, 2>>])
    /\ FracLess(CG[<<5, 0>>], CG[<<3, 4>>])

\* the contigs of the one path returned, in order
OnePathOrder(order) ==
    \E p \in result :
        /\ result = {p}
        /\ [k \in 1 .. Len(paths[p + 1]) |-> paths[p + 1][k][1]] = order

\* C5 as stated: the cycle X -> Y -> Z -> X with Z -> X the weakest edge
\* comes out as the one path Y, Z, X.
C5_OrderYZX ==
    (stage = "done" /\ CycleXYZ) => OnePathOrder(<<1, 2, 0>>)

\* C5 amended: it comes out as the one path X, Y, Z, or Z, Y, X with every
\* contig reversed: the cut is at Z -> X, which puts Z and X at the two ends.
C5_OrderXYZ ==
    (stage = "done" /\ CycleXYZ) =>
        \E p \in result :
            /\ result = {p}
            /\ paths[p + 1] \in {<<<<0, 1>>, <<1, 1>>, <<2, 1>>>>,
                                 <<<<2, -1>>, <<1, -1>>, <<0, -1>>>>}

C5_Witness ==
    /\ stage = "done"
    /\ CycleXYZ
    /\ cycles = 1
    /\ OnePathOrder(<<2, 1, 0>>)

Known(rec) == rec.at \in DOMAIN tigToIdx /\ rec.bt \in DOMAIN tigToIdx

RecPair(rec) == <<tigToIdx[rec.at], tigToIdx[rec.bt]>>

\* positions of the scanned records that name the pair in the order of the key
SeenFor(p) == {k \in 1 .. Len(seen) : Known(seen[k]) /\ RecPair(seen[k]) = p}

\* positions of the scanned records that name the pair in either order
SeenForUnordered(p) == SeenFor(p) \cup SeenFor(<<p[2], p[1]>>)

MeanDistOf(k) == ContactOf(seen[k]).meanDist

\* the earliest record of least meanDist among the positions S
Best(S) ==
    CHOOSE k \in S : \A m \in S :
        MeanDistOf(k) < MeanDistOf(m) \/ (MeanDistOf(k) = MeanDistOf(m) /\ k <= m)

RECURSIVE SumLinks(_)
SumLinks(S) ==
    IF S = {} THEN 0
    ELSE LET k == CHOOSE x \in S : TRUE IN seen[k].nlinks + SumLinks(S \ {k})

\* C6: the Contact stored for a contig pair is the record of least meanDist
\* among all records seen for that pair (whichever contig a record names
\* first), the earliest one on a tie.
C6_BestOfPair ==
    \A p \in DOMAIN contacts :
        contacts[p] = ContactOf(seen[Best(SeenForUnordered(p))])

\* C7: the store holds exactly one Contact for every unordered contig pair a
\* scanned record names, and none for the others: records naming (i,j) and
\* (j,i) end up in one Contact.
C7_OneContactPerUnorderedPair ==
    \A i \in TigNames : \A j \in TigNames :
        Cardinality({<<i, j>>, <<j, i>>} \cap DOMAIN contacts)
            = IF SeenForUnordered(<<i, j>>) = {} THEN 0 ELSE 1

Flip(o) == IF o = "+" THEN "-" ELSE "+"

Mirror(k) == <<k[2], k[1], Flip(k[4]), Flip(k[3])>>

\* C8: every oriented key of the store has its mirrored key (j,i,flip(oj),flip(oi))
\* in the store with the identical histogram.
C8_MirroredKeys ==
    \A k \in DOMAIN orientedContacts :
        /\ Mirror(k) \in DOMAIN orientedContacts
        /\ orientedContacts[Mirror(k)] = orientedContacts[k]

OrientedKey(rec) == <<tigToIdx[rec.at], tigToIdx[rec.bt], rec.ao, rec.bo>>

\* a later record has overwritten the entry an earlier record wrote through
\* its mirrored key, with another histogram
C8_Witness ==
    /\ Len(seen) = 2
    /\ Known(seen[1]) /\ Known(seen[2])
    /\ OrientedKey(seen[2]) = Mirror(OrientedKey(seen[1]))
    /\ GoldenArray(seen[1].dists) # GoldenArray(seen[2].dists)
    /\ orientedContacts[OrientedKey(seen[1])] = GoldenArray(seen[2].dists)

\* C9 as stated: the stored link count is the sum of the link counts of the
\* records seen for the pair.
C9_LinkCountIsSum ==
    \A p \in DOMAIN contacts : contacts[p].nlinks = SumLinks(SeenFor(p))

\* C9 amended: the stored link count is the link count of one record, the
\* earliest record of least meanDist among those naming the pair in the order
\* of the key.
C9_LinkCountOfBest ==
    \A p \in DOMAIN contacts : contacts[p].nlinks = seen[Best(SeenFor(p))].nlinks

\* two records for one key, the second of smaller meanDist and another count
C9_Witness ==
    /\ Len(seen) = 2
    /\ Known(seen[1]) /\ Known(seen[2])
    /\ RecPair(seen[1]) = RecPair(seen[2])
    /\ MeanDistOf(2) < MeanDistOf(1)
    /\ seen[1].nlinks # seen[2].nlinks
    /\ contacts[RecPair(seen[1])].nlinks = seen[2].nlinks

\* the least-meanDist rule read per ordered key (clm.go:170-178): what the
\* store does satisfy, the unordered reading of the pair set aside
BestOfKey ==
    \A p \in DOMAIN contacts : contacts[p] = ContactOf(seen[Best(SeenFor(p))])

\* the cells of a square matrix of dimension n
Square(n) == (0 .. (n - 1)) \X (0 .. (n - 1))

\* contigs A(10000), B(10000), C(500) head the ids file and C has no links
ScenarioABC ==
    /\ Len(Tigs) >= 3
    /\ Tigs[1].Size = 10 * MINSIZE /\ Tigs[2].Size = 10 * MINSIZE
    /\ 2 * Tigs[3].Size = MINSIZE
    /\ SumNlinks(contacts, DOMAIN contacts, 2) = 0

C12_ScaleInvariant ==
    (stage = "loop" /\ scaled.done /\ scaled.factor \in Scales) =>
        DOMAIN scaled.conf = DOMAIN CG

\* both graphs are made, by a factor of 3, and the confidence graph has kept
\* some edges of the linkage graph and dropped others
C12_Witness ==
    /\ stage = "loop"
    /\ scaled.done
    /\ scaled.factor = 3
    /\ DOMAIN CG # {}
    /\ DOMAIN CG # DOMAIN G
    /\ DOMAIN scaled.conf = DOMAIN CG

\* the second largest weight at an End, 0 when there is none
SecondAt(g, a) == TwoLargest(g)[a][2]

\* C17: makeConfidenceGraph keeps an edge (a, b) exactly when its weight is
\* strictly above the second-best alternative at a and at b, a missing
\* alternative counted as 0.
C17_KeptIffBeatsAlternatives ==
    [][(stage = "graph" /\ stage' = "loop") =>
          \A e \in DOMAIN G :
              e \in DOMAIN CG' <=>
                  /\ G[e][1] > SecondAt(G, e[1])
                  /\ G[e][1] > SecondAt(G, e[2])]_vars

\* what makeConfidenceGraph keeps: the edges above the second-best at both
\* Ends of which at least one End has another neighbour
KeptIffBeatsSomeAlternative ==
    [][(stage = "graph" /\ stage' = "loop") =>
          \A e \in DOMAIN G :
              e \in DOMAIN CG' <=>
                  /\ FracAboveOne(Confidence(G)[e])
                  /\ G[e][1] > SecondAt(G, e[1])
                  /\ G[e][1] > SecondAt(G, e[2])
                  /\ SecondAt(G, e[1]) > 0 \/ SecondAt(G, e[2]) > 0]_vars

\* the stages of a round of pruneTour
RoundStages == {"spawn", "wait", "cutoff"}

\* C13: a round of pruneTour is the first or the second of its call; a round
\* that deactivates no contig leaves the tour as it is and ends the call; the
\* call goes on to another phase only from a round that deactivated a contig.
C13_AtMostTwoRounds ==
    [][/\ stage' \in RoundStages => phase' \in {1, 2}
       /\ (stage = "cutoff" /\ Tigs' = Tigs) =>
              (stage' = "idle" /\ Tour' = Tour /\ phase' = phase)
       /\ (stage = "cutoff" /\ stage' = "phase") =>
              (Tigs' # Tigs /\ phase' = phase + 1)]_vars

\* the second round of a call has ended the call without a deactivation
C13_Witness ==
    /\ stage = "idle"
    /\ phase = 2
    /\ Tour = ptTour
    /\ Len(Tour) >= 1
    /\ Len(Tour) < Cardinality({k \in 1 .. Len(Tigs) : Tigs[k].Size >= MINSIZE})

\* deltaScore > 1e-9
AboveFloor(d) == d[1] = "pow10" /\ d[2] > -9

\* the goroutines of the round that have written their slot
Written == {idx \in DOMAIN tasks : tasks[idx].st \in {"written", "done"}}

\* C14 as stated: a deltaScore above 1e-9 is recorded as a positive
\* log-delta, and -9.0 is recorded exactly when deltaScore is not above 1e-9.
C14_LogDeltaPositive ==
    \A idx \in Written :
        /\ AboveFloor(tasks[idx].deltaScore) => log10ds[idx + 1] > 0
        /\ log10ds[idx + 1] = -9 <=> ~AboveFloor(tasks[idx].deltaScore)

\* C14 amended: a deltaScore above 1e-9 is recorded as log10(deltaScore),
\* which is above -9.0 and is positive only for a deltaScore above 1; -9.0 is
\* recorded exactly when deltaScore is not above 1e-9.
C14_LogDeltaAboveFloor ==
    \A idx \in Written :
        /\ AboveFloor(tasks[idx].deltaScore) =>
              /\ log10ds[idx + 1] = tasks[idx].deltaScore[2]
              /\ log10ds[idx + 1] > -9
              /\ log10ds[idx + 1] > 0 <=> tasks[idx].deltaScore[2] > 0
        /\ log10ds[idx + 1] = -9 <=> ~AboveFloor(tasks[idx].deltaScore)

\* one round has recorded a deltaScore of 1e-5 as -5, one of 1e-9 as the
\* floor, and one of 100 as 2
C14_Witness ==
    /\ \E idx \in Written :
          tasks[idx].deltaScore = <<"pow10", -5>> /\ log10ds[idx + 1] = -5
    /\ \E idx \in Written :
          tasks[idx].deltaScore = <<"pow10", -9>> /\ log10ds[idx + 1] = -9
    /\ \E idx \in Written :
          tasks[idx].deltaScore = <<"pow10", 2>> /\ log10ds[idx + 1] = 2

\* a goroutine of the round got a value that is not finite from Evaluate
RoundFaulty == \E idx \in DOMAIN tasks : tasks[idx].deltaScore[1] = "nan"

\* C15: a round in which the scoring function returned a value that is not
\* finite deactivates no contig, does not rebuild the tour and ends the call.
C15_FaultyRoundDiscarded ==
    [][(stage = "cutoff" /\ RoundFaulty) =>
          (Tigs' = Tigs /\ Tour' = Tour /\ stage' = "idle")]_vars

\* C16: a link record that names a contig that is not in the ids file is
\* skipped: the contact store, the oriented-contact store, the contigs and
\* the name index are as they were, and the scan goes on.
C16_UnknownRecordSkipped ==
    [][(Len(seen') = Len(seen) + 1
            /\ (seen'[Len(seen')].at \notin DOMAIN tigToIdx
                    \/ seen'[Len(seen')].bt \notin DOMAIN tigToIdx)) =>
          /\ contacts' = contacts
          /\ orientedContacts' = orientedContacts
          /\ Tigs' = Tigs
          /\ tigToIdx' = tigToIdx
          /\ stage' = stage]_vars

\* a record with an unknown name has been scanned after a record that left a
\* Contact
C16_Witness ==
    /\ Len(seen) = 2
    /\ Known(seen[1])
    /\ ~Known(seen[2])
    /\ Cardinality(DOMAIN contacts) = 1
    /\ Cardinality(DOMAIN orientedContacts) = 2

\* the tour t without its entry at position i (from 0), the others in order
Excised(t, i) == SubSeq(t, 1, i) \o SubSeq(t, i + 2, Len(t))

\* C18: the goroutine of position i holds the round's tour with the entry at
\* i removed and the others in their order, whatever the loop builds later;
\* there is one goroutine per position, and a step that changes log10ds
\* while the goroutines run is the write of one goroutine to its own slot.
C18_TasksIndependent ==
    [][/\ \A idx \in DOMAIN tasks' :
              /\ idx \in 0 .. (Len(ptTour') - 1)
              /\ tasks'[idx].newTour = Excised(ptTour', idx)
       /\ (stage \in {"spawn", "wait"} /\ log10ds' # log10ds) =>
              \E idx \in DOMAIN tasks :
                  /\ tasks[idx].st = "running"
                  /\ tasks'[idx].st = "written"
                  /\ \A j \in DOMAIN tasks \ {idx} : tasks'[j] = tasks[j]
                  /\ log10ds' = [log10ds EXCEPT ![idx + 1] = log10ds'[idx + 1]]]_vars

\* the loop is still building the candidate of the last position of a tour
\* of three while the goroutine of position 0 has finished and the one of
\* position 1 has not written yet
C18_Witness ==
    /\ stage = "spawn"
    /\ Len(ptTour) = 3
    /\ ptI = 2
    /\ tasks[0].st = "done"
    /\ tasks[1].st = "running"
    /\ tasks[0].newTour = <<ptTour[2], ptTour[3]>>
    /\ tasks[1].newTour = <<ptTour[1], ptTour[3]>>

\* s is t restricted to its positions keep, each once and in the order of t
IsSelection(s, t, keep) ==
    /\ Len(s) = Cardinality(keep)
    /\ \E f \in [1 .. Len(s) -> 1 .. Len(t)] :
          /\ \A i \in 1 .. Len(s) : \A j \in 1 .. Len(s) : i < j => f[i] < f[j]
          /\ \A i \in 1 .. Len(s) : f[i] \in keep /\ s[i] = t[f[i]]

\* the positions of the tour t whose contig is active in tigs
ActivePositions(t, tigs) == {k \in 1 .. Len(t) : tigs[t[k] + 1].IsActive}

\* C19: the end of a round leaves in the Tour exactly the members of the
\* round's tour whose contig is still active, each once and in their order;
\* once Activate has built it the tour never grows, and every member of the
\* Tour is active.
C19_TourIsActiveMembers ==
    [][/\ stage = "cutoff" => IsSelection(Tour', Tour, ActivePositions(Tour, Tigs'))
       /\ stage \notin {"start", "density", "sized"} =>
              /\ Len(Tour') <= Len(Tour)
              /\ IsSelection(Tour', Tour, ActivePositions(Tour, Tigs'))
       /\ \A k \in 1 .. Len(Tour') : Tigs'[Tour'[k] + 1].IsActive
       /\ \A i \in 1 .. Len(Tour') : \A j \in 1 .. Len(Tour') :
              i # j => Tour'[i] # Tour'[j]]_vars

\* pruneTour has returned after two rounds that each took a contig out of a
\* tour of three
C19_Witness ==
    /\ stage = "idle"
    /\ phase = 3
    /\ Len(Tour) = 1
    /\ Cardinality({k \in 1 .. Len(Tigs) : ~Tigs[k].IsActive /\ Tigs[k].Size >= MINSIZE}) = 2

\* the edge sequence p is one chain: every edge starts where the one before
\* ends, sister edges and the others alternate, and no End is a tail twice
Coherent(p) ==
    /\ \A k \in 1 .. (Len(p) - 1) :
          /\ p[k].b = p[k + 1].a
          /\ isSister(p[k]) # isSister(p[k + 1])
    /\ \A i \in 1 .. Len(p) : \A j \in 1 .. Len(p) : i # j => p[i].a # p[j].a

\* C20: when the upstream walk is not a cycle, the reversed upstream walk
\* followed by the downstream walk is one chain that arrives at the starting
\* End where the upstream part ends and leaves it where the downstream part
\* begins.
C20_ChainThroughStart ==
    [][stage = "downret" =>
          LET up == Len(walk.path1)
          IN /\ Coherent(walk'.path1)
             /\ Len(walk'.path1) = up + Len(walk.path2)
             /\ up >= 1
             /\ walk'.path1[up].b = walk.start
             /\ Len(walk.path2) > 0 => walk'.path1[up + 1].a = walk.start]_vars

\* a walk that started in the middle of a chain over all the paths: three
\* edges upstream, two downstream
C20_Witness ==
    /\ stage = "loop"
    /\ cycles = 0
    /\ Len(walk.path1) = 2 * NPaths - 1
    /\ Len(walk.path2) = 2
    /\ Coherent(walk.path1)
    /\ walk.path1[2 * NPaths - 3].b = walk.start

\* C21: on a linkage graph of positive weights the confidence pass divides
\* every edge by a positive value: after the pass the denominator of every
\* edge, the value getSecondLargest returned for its two Ends, is above 0.
C21_DenominatorPositive ==
    stage # "graph" => \A e \in DOMAIN G : G[e][1] > 0 /\ G[e][2] > 0

\* the pass has run on a graph with an edge whose two Ends have no other
\* neighbour: it was divided by its own weight
C21_Witness ==
    /\ stage = "loop"
    /\ \E e \in DOMAIN G :
          /\ Nbrs(G, e[1]) = {e[2]}
          /\ Nbrs(G, e[2]) = {e[1]}
          /\ G[e][2] = G[e][1]
          /\ G[e][1] = 3
          /\ e \notin DOMAIN CG

\* C22: the confidence graph of a symmetric linkage graph is symmetric, with
\* the same weight in both directions, and every End that has an entry has
\* exactly one neighbour: the loop of dfs over the neighbours has one choice.
C22_ConfidenceIsMatching ==
    stage # "graph" =>
        \A e \in DOMAIN CG :
            /\ <<e[2], e[1]>> \in DOMAIN CG
            /\ CG[<<e[2], e[1]>>][1] * CG[e][2] = CG[e][1] * CG[<<e[2], e[1]>>][2]
            /\ Nbrs(CG, e[1]) = {e[2]}

\* the pass has run on a graph with an End of two neighbours and has kept two
\* links and dropped one
C22_Witness ==
    /\ stage = "loop"
    /\ Cardinality(DOMAIN G) = 6
    /\ Cardinality(DOMAIN CG) = 4
    /\ \E a \in Keys(G) : Cardinality(Nbrs(G, a)) = 2 /\ Cardinality(Nbrs(CG, a)) = 1

\* the contigs of the paths whose Ends the edges of a walk leave
WalkContigs(p) ==
    UNION {{paths[PathOfNode(p[k].a) + 1][j][1] :
               j \in 1 .. Len(paths[PathOfNode(p[k].a) + 1])} : k \in 1 .. Len(p)}

\* C23: the step that breaks a cycle makes one new Path that holds every
\* contig of the cycle exactly once and no other, every sister edge of the
\* walk is kept, and each contig of the cycle points to the new Path.
C23_BrokenCycleKeepsContigs ==
    [][(stage = "upret" /\ walk.isCycle) =>
          LET cyc == WalkContigs(walk.path1)
              new == paths'[Len(paths')]
          IN /\ Len(paths') = Len(paths) + 1
             /\ Len(new) = Cardinality(cyc)
             /\ \A c \in cyc :
                   /\ Cardinality({k \in 1 .. Len(new) : new[k][1] = c}) = 1
                   /\ contigPath'[c] = Len(paths)
             /\ \A k \in 1 .. Len(walk.path1) :
                   isSister(walk.path1[k]) =>
                       \E j \in 1 .. Len(walk'.path1) : walk'.path1[j] = walk.path1[k]
             /\ Len(walk'.path1) = Len(walk.path1) - 1]_vars

\* the call has ended with one Path, made from a cycle through all the
\* contigs, and every contig points to it
C23_Witness ==
    /\ stage = "done"
    /\ cycles = 1
    /\ result = {NPaths}
    /\ Len(paths[NPaths + 1]) = NPaths
    /\ \A c \in 0 .. (NPaths - 1) : contigPath[c] = NPaths

\* the Ends that are the tail of an edge of the upstream walk so far
UpstreamTails == {walk.path1[k].a : k \in 1 .. Len(walk.path1)}

\* C24: generatePathAndCycle, once called, comes to its end; a step of dfs returns or
\* marks an End that was not visited; an End is marked by at most one
\* upstream walk and at most one downstream walk; and the upstream walk
\* reports a cycle only on coming back to an End of its own walk.
C24_WalksTerminate ==
    /\ (stage = "loop") ~> (stage = "done")
    /\ [][/\ stage \in {"up", "down"} =>
               \/ stage' \in {"upret", "downret"}
               \/ walk.cur \notin visited /\ visited' = visited \cup {walk.cur}
          /\ (stage = "up" /\ stage' = "upret" /\ walk'.isCycle) =>
               walk.cur \in UpstreamTails
          /\ \A x \in marked' : \A y \in marked' :
               (x[1] = y[1] /\ x[2] = y[2]) => x[3] = y[3]]_vars

\* the call has ended after one walk over all the paths that was not a
\* cycle: every End was marked, the starting End upstream and downstream
C24_Witness ==
    /\ stage = "done"
    /\ cycles = 0
    /\ Len(paths) = NPaths + 1
    /\ Cardinality(marked) = 2 * NPaths + 1
    /\ \E x \in marked : x[2] = "up" /\ <<x[1], "down", x[3]>> \in marked

====
